---------------------------- MODULE Spec2Model ----------------------------
(***************************************************************************)
(* Plan / payment / usage reconciliation of the SuperFlow server            *)
(* (server/routes.ts, server/storage.ts, server/auth.ts).                   *)
(*                                                                         *)
(* The relational store is the shared state.  Every HTTP request is a      *)
(* handler running in a slot; a handler step is one awaited store access   *)
(* (or one awaited external call) together with the synchronous code that  *)
(* follows it, so that handlers of concurrent requests interleave exactly  *)
(* at their awaits.                                                        *)
(*                                                                         *)
(* Time is counted in ticks of half a day.                                 *)
(***************************************************************************)
EXTENDS Integers, Sequences, FiniteSets, TLC

(* ------------------------------ bounds -------------------------------- *)
MaxUsage == 2        \* rows of usage_tracking
MaxTime == 3         \* last tick of the clock
MonthTicks == 1      \* length of "one calendar month" in ticks (shortened)
MaxCount == 2        \* the history counter stops counting here
MaxDbRetries == 3    \* the largest maxRetries withDbRetry is called with

(* -------------------------- program constants -------------------------- *)
DayTicks == 2                 \* 1000 * 3600 * 24 ms, in ticks
FreeMinutes == 30             \* schema default of users.minutes_remaining
SweepMinutes == 30            \* checkPlanExpiry: "Reset to free plan limits"
UnlimitedMinutes == 9999      \* plan.minutes === -1 ? 9999 : plan.minutes
recordingDurationSeconds == 30
maxRetries == 3

PlanNames == {"lite", "pro", "max"}

PLAN_PRICING ==
  [p \in PlanNames |->
     CASE p = "lite" -> [amount |-> 19900, minutes |-> 60]
       [] p = "pro"  -> [amount |-> 99900, minutes |-> 600]
       [] p = "max"  -> [amount |-> 199900, minutes |-> 0 - 1]]

UserIds == {1}
OrderIds == {"order_1_42"}
\* two requests can be in flight at the same time
Slots == {1, 2}

NoDate == <<>>
Date(t) == <<t>>

VARIABLES
  users,        \* table users: id -> plan state
  payments,     \* table payments: cashfreeOrderId -> row ("absent": no row)
  usageTracking,\* table usage_tracking, oldest first
  recordings,   \* table recordings: number of rows per user
  now,          \* the clock
  environment,  \* cashfreeConfig.environment
  slots,        \* the requests in flight
  planUpdates   \* history: plan updates made for each order by the webhook,
                \* return-URL and verify handlers

vars == <<users, payments, usageTracking, recordings, now, environment,
          slots, planUpdates>>

(* ------------------------------ rows ----------------------------------- *)
\* paidAt is written and never read: the model keeps whether it is set
AbsentPayment ==
  [userId |-> 0, planType |-> "none", amount |-> 0, status |-> "absent",
   paidAt |-> "null"]

NewUser ==
  [planType |-> "free", minutesRemaining |-> FreeMinutes,
   planExpiresAt |-> NoDate, isPremium |-> FALSE]

\* what checkPlanExpiry returns without an expiry date or after an error
NoStatus == [isExpired |-> FALSE, daysLeft |-> 0 - 1, shouldDowngrade |-> FALSE]

\* a request: its inputs, the locals it still needs, and its response.
\* seen is the order status a handler answered on without writing
\* withDbRetry's lastError before any attempt has failed
NoError == [code |-> "", message |-> <<>>]

IdleSlot ==
  [kind |-> "idle", pc |-> "idle", orderId |-> "", userId |-> 0,
   planType |-> "none", host |-> <<>>, branch |-> "", remaining |-> 0,
   user |-> NewUser, seen |-> "", status |-> 0, body |-> "",
   redirectTo |-> "", reason |-> "", calls |-> 0, duration |-> 0,
   event |-> "",
   expiryStatus |-> NoStatus,
   maxRetries |-> 0, lastError |-> NoError]

(* --------------------------- storage.ts -------------------------------- *)
getUser(id) == users[id]

getPayment(orderId) == payments[orderId]

createPaymentOrder(pays, orderId, userId, planType, amount) ==
  [pays EXCEPT ![orderId] =
     [userId |-> userId, planType |-> planType, amount |-> amount,
      status |-> "created", paidAt |-> "null"]]

\* drizzle leaves a column out of SET when its value is undefined
updatePaymentStatus(pays, orderId, status, paidAt) ==
  IF pays[orderId].status = "absent" THEN pays
  ELSE [pays EXCEPT ![orderId].status = status,
                    ![orderId].paidAt = IF paidAt = "undefined" THEN @
                                        ELSE paidAt]

\* variant: the premium flag is left as it was
updateUserPlanKeepFlag(us, userId, planType, minutesRemaining, expiresAt) ==
  IF userId \in DOMAIN us
  THEN [us EXCEPT ![userId] =
          [planType |-> planType, minutesRemaining |-> minutesRemaining,
           planExpiresAt |-> expiresAt, isPremium |-> @.isPremium]]
  ELSE us

updateUserPlan(us, userId, planType, minutesRemaining, expiresAt) ==
  IF userId \in DOMAIN us
  THEN [us EXCEPT ![userId] =
          [planType |-> planType, minutesRemaining |-> minutesRemaining,
           planExpiresAt |-> expiresAt, isPremium |-> planType # "free"]]
  ELSE us

\* db.update(users).set({...updates}).where(eq(users.id, id))
updateUser(us, id, updates) ==
  [us EXCEPT ![id] = [f \in DOMAIN @ |-> IF f \in DOMAIN updates
                                         THEN updates[f] ELSE @[f]]]

trackUsage(log, userId, duration, remainingMinutes) ==
  Append(log, [userId |-> userId, duration |-> duration,
               remainingMinutes |-> remainingMinutes])

\* user?.minutesRemaining || 0
checkMinutesRemaining(userId) == users[userId].minutesRemaining

\* const minutesToAdd = plan.minutes === -1 ? 9999 : plan.minutes
minutesToAdd(plan) ==
  IF plan.minutes = 0 - 1 THEN UnlimitedMinutes ELSE plan.minutes

\* expiresAt.setMonth(expiresAt.getMonth() + 1)
expiresAt == Date(now + MonthTicks)

(* ---------------- auth.ts: cross-domain routing ------------------------ *)
\* host names, split at the dots
MainHost == <<"superflow", ".", "work">>
PremiumHost == <<"app", ".", "superflow", ".", "work">>
Hosts == {MainHost, PremiumHost}

\* String.prototype.includes
includes(str, pat) ==
  \E i \in 1..(Len(str) - Len(pat) + 1) :
     SubSeq(str, i, i + Len(pat) - 1) = pat

isMainApp(requestHost) ==
  includes(requestHost, <<"superflow", ".", "work">>)
  /\ ~includes(requestHost, <<"app", ".">>)

isPremiumApp(requestHost) ==
  includes(requestHost, <<"app", ".", "superflow", ".", "work">>)

\* user.planExpiresAt && new Date() > user.planExpiresAt
isExpired(user) ==
  user.planExpiresAt # NoDate /\ now > user.planExpiresAt[1]

hasPremiumAccess(user) == user.isPremium /\ user.planType # "free"

\* variant: an order marked paid counts as premium access
getUserRedirectUrlReadsPayments(user, requestHost) ==
  IF isExpired(user)
  THEN IF isMainApp(requestHost) THEN "null"
       ELSE "https://superflow.work/premium"
  ELSE IF hasPremiumAccess(user)
          \/ \E o \in OrderIds : payments[o].status = "paid"
       THEN IF isMainApp(requestHost)
            THEN "https://app.superflow.work/dashboard" ELSE "null"
       ELSE IF isPremiumApp(requestHost)
            THEN "https://superflow.work/dashboard" ELSE "null"

\* variant: the premium rule is tried before the expiry rule
getUserRedirectUrlPremiumFirst(user, requestHost) ==
  IF hasPremiumAccess(user)
  THEN IF isMainApp(requestHost)
       THEN "https://app.superflow.work/dashboard" ELSE "null"
  ELSE IF isExpired(user)
       THEN IF isMainApp(requestHost) THEN "null"
            ELSE "https://superflow.work/premium"
       ELSE IF isPremiumApp(requestHost)
            THEN "https://superflow.work/dashboard" ELSE "null"

getUserRedirectUrl(user, requestHost) ==
  IF isExpired(user)
  THEN IF isMainApp(requestHost) THEN "null"
       ELSE "https://superflow.work/premium"
  ELSE IF hasPremiumAccess(user)
       THEN IF isMainApp(requestHost)
            THEN "https://app.superflow.work/dashboard" ELSE "null"
       ELSE IF isPremiumApp(requestHost)
            THEN "https://superflow.work/dashboard" ELSE "null"

(* --------------------------- slot helpers ------------------------------ *)
\* a request is taken by the first free slot, and only after the responses
\* already produced have been sent
Stepping == \A t \in Slots : slots[t].pc # "done"

Free(s) ==
  /\ slots[s].kind = "idle"
  /\ Stepping
  /\ \A t \in Slots : t < s => slots[t].kind # "idle"

Running(s, kind, pc) ==
  /\ slots[s].kind = kind /\ slots[s].pc = pc
  /\ Stepping

Respond(sl, status, body) ==
  [sl EXCEPT !.pc = "done", !.status = status, !.body = body]

\* the locals of an activation after the payment row has been read
Activation(sl, rec) ==
  [sl EXCEPT !.pc = "markPaid", !.userId = rec.userId,
             !.planType = rec.planType]

\* one more updateUserPlan made for order o by the webhook, the return-URL
\* landing or the verify endpoint
CountUpdate(o) ==
  [planUpdates EXCEPT ![o] = IF @ < MaxCount THEN @ + 1 ELSE @]

\* usage rows written so far or still to be written by requests in flight
UsageDemand ==
  Len(usageTracking)
  + Cardinality({t \in Slots : slots[t].kind \in {"webhook", "deduct"}
                               /\ slots[t].pc # "done"})
  + Cardinality({t \in Slots : slots[t].kind = "transcribe"
                               /\ slots[t].userId # 0
                               /\ slots[t].pc # "done"})

(* ---------------- POST /api/payment/webhook ---------------------------- *)
WebhookEvents ==
  {"PAYMENT_SUCCESS_WEBHOOK", "PAYMENT_FAILED_WEBHOOK",
   "PAYMENT_USER_DROPPED_WEBHOOK", "OTHER"}

\* variant: a request without the verification headers is let through
SignatureGateHeadersOptional(present, valid) ==
  IF present THEN valid \/ environment = "sandbox"
  ELSE TRUE

\* the signature gate: TRUE when the request is let through
SignatureGate(present, valid) ==
  IF present THEN valid \/ environment = "sandbox"
  ELSE environment = "sandbox"

\* variant: the status of the row is not looked at
SuccessWebhookLookupNoCheck(sl, rec) ==
  IF rec.status = "absent" THEN Respond(sl, 500, "error")
  ELSE Activation(sl, rec)

\* handlePaymentSuccessWebhook, up to its first write
SuccessWebhookLookup(sl, rec) ==
  IF rec.status = "absent" THEN Respond(sl, 500, "error")
  ELSE IF rec.status = "paid"
       THEN Respond([sl EXCEPT !.seen = rec.status], 200, "success")
       ELSE Activation(sl, rec)

WebhookReceive(s, o, ev, present, valid, dbok) ==
  /\ Free(s)
  /\ ev = "PAYMENT_SUCCESS_WEBHOOK" => UsageDemand < MaxUsage
  /\ LET sl == [IdleSlot EXCEPT !.kind = "webhook", !.orderId = o,
                                !.event = ev]
         rec == getPayment(o)
     IN
     IF ~SignatureGate(present, valid)
     THEN /\ slots' = [slots EXCEPT ![s] =
                 Respond(sl, IF present THEN 401 ELSE 400, "signature")]
          /\ UNCHANGED payments
     ELSE IF ev = "PAYMENT_SUCCESS_WEBHOOK"
     THEN /\ UNCHANGED payments
          /\ slots' = [slots EXCEPT ![s] = SuccessWebhookLookup(sl, rec)]
     ELSE IF ev \in {"PAYMENT_FAILED_WEBHOOK", "PAYMENT_USER_DROPPED_WEBHOOK"}
     THEN \* handlePaymentFailedWebhook / handlePaymentDroppedWebhook:
          \* an error of the update is caught and logged
          LET st == IF ev = "PAYMENT_FAILED_WEBHOOK" THEN "failed"
                    ELSE "cancelled"
          IN /\ payments' = IF dbok
                            THEN updatePaymentStatus(payments, o, st,
                                                     "undefined")
                            ELSE payments
             /\ slots' = [slots EXCEPT ![s] = Respond(sl, 200, "success")]
     ELSE /\ UNCHANGED payments
          /\ slots' = [slots EXCEPT ![s] = Respond(sl, 200, "success")]
  /\ UNCHANGED <<users, usageTracking, recordings, now, environment,
                 planUpdates>>

\* storage.updatePaymentStatus(orderId, "paid", new Date())
WebhookMarkPaid(s, dbok) ==
  /\ Running(s, "webhook", "markPaid")
  /\ IF dbok
     THEN /\ payments' = updatePaymentStatus(payments, slots[s].orderId,
                                            "paid", "set")
          /\ slots' = [slots EXCEPT ![s].pc = "plan"]
     ELSE /\ UNCHANGED payments
          /\ slots' = [slots EXCEPT ![s] = Respond(@, 500, "error")]
  /\ UNCHANGED <<users, usageTracking, recordings, now, environment,
                 planUpdates>>

\* storage.updateUserPlan(paymentRecord.userId, paymentRecord.planType, ...)
WebhookActivatePlan(s, dbok) ==
  /\ Running(s, "webhook", "plan")
  /\ LET sl == slots[s]
         plan == PLAN_PRICING[sl.planType]
     IN IF dbok
        THEN /\ users' = updateUserPlan(users, sl.userId, sl.planType,
                                        minutesToAdd(plan), expiresAt)
             /\ planUpdates' = CountUpdate(sl.orderId)
             /\ slots' = [slots EXCEPT ![s].pc = "track"]
        ELSE /\ UNCHANGED <<users, planUpdates>>
             /\ slots' = [slots EXCEPT ![s] = Respond(@, 500, "error")]
  /\ UNCHANGED <<payments, usageTracking, recordings, now, environment>>

\* storage.trackUsage({userId, duration: 0, remainingMinutes: minutesToAdd})
WebhookTrackUsage(s, dbok) ==
  /\ Running(s, "webhook", "track")
  /\ LET sl == slots[s]
         plan == PLAN_PRICING[sl.planType]
     IN IF dbok
        THEN /\ usageTracking' = trackUsage(usageTracking, sl.userId, 0,
                                            minutesToAdd(plan))
             /\ slots' = [slots EXCEPT ![s] = Respond(@, 200, "success")]
        ELSE /\ UNCHANGED usageTracking
             /\ slots' = [slots EXCEPT ![s] = Respond(@, 500, "error")]
  /\ UNCHANGED <<users, payments, recordings, now, environment, planUpdates>>

(* ---------------- ALL /payment/return ---------------------------------- *)
UrlStatuses == {"", "PAID"}
GatewayReplies == {"ERROR", "EMPTY", "SUCCESS", "PAID", "FAILED"}
\* the answers tried in the verification loop
LoopReplies == {"ERROR", "FAILED", "PAID"}

\* hasSuccessfulPayment: payment_status SUCCESS or PAID, or order_status PAID
hasSuccessfulPayment(reply) == reply \in {"SUCCESS", "PAID"}

orderStatusSuccess(urlStatus) == urlStatus \in {"PAID", "SUCCESS"}

\* the verification loop from pass `attempt` on; replies[i] is what
\* cashfree.PGOrderFetchPayments answers in pass i.  The loop touches no
\* table, so it runs within the step that read the payment row
RECURSIVE VerificationLoop(_, _, _)
VerificationLoop(replies, attempt, urlStatus) ==
  IF replies[attempt] # "ERROR"
  THEN IF hasSuccessfulPayment(replies[attempt])
          \/ orderStatusSuccess(urlStatus)
       THEN [verificationSuccess |-> TRUE, attempts |-> attempt]
       ELSE IF attempt < maxRetries
            THEN VerificationLoop(replies, attempt + 1, urlStatus)
            ELSE [verificationSuccess |-> FALSE, attempts |-> attempt]
  ELSE IF attempt = maxRetries
       THEN [verificationSuccess |-> orderStatusSuccess(urlStatus),
             attempts |-> attempt]
       ELSE VerificationLoop(replies, attempt + 1, urlStatus)

\* missing order id, unknown order, the loop, and the check of the status
\* read before the loop
ReturnReceive(s, o, urlStatus, replies) ==
  /\ Free(s)
  /\ LET sl == [IdleSlot EXCEPT !.kind = "return", !.orderId = o]
         rec == getPayment(o)
         loop == VerificationLoop(replies, 1, urlStatus)
         after == [sl EXCEPT !.calls = loop.attempts]
     IN slots' = [slots EXCEPT ![s] =
          IF o = "" THEN Respond(sl, 302, "missing_order_id")
          ELSE IF rec.status = "absent"
               THEN Respond(sl, 302, "payment_record_not_found")
          ELSE IF ~loop.verificationSuccess
               THEN Respond(after, 302, "payment_failed")
          ELSE IF rec.status # "paid" THEN Activation(after, rec)
          ELSE Respond([after EXCEPT !.seen = rec.status], 302, "success")]
  /\ UNCHANGED <<users, payments, usageTracking, recordings, now,
                 environment, planUpdates>>

ReturnMarkPaid(s, dbok) ==
  /\ Running(s, "return", "markPaid")
  /\ IF dbok
     THEN /\ payments' = updatePaymentStatus(payments, slots[s].orderId,
                                            "paid", "set")
          /\ slots' = [slots EXCEPT ![s].pc = "plan"]
     ELSE /\ UNCHANGED payments
          /\ slots' = [slots EXCEPT ![s] = Respond(@, 302, "activation_failed")]
  /\ UNCHANGED <<users, usageTracking, recordings, now, environment,
                 planUpdates>>

ReturnActivatePlan(s, dbok) ==
  /\ Running(s, "return", "plan")
  /\ LET sl == slots[s]
         planData == PLAN_PRICING[sl.planType]
     IN IF dbok
        THEN /\ users' = updateUserPlan(users, sl.userId, sl.planType,
                                        minutesToAdd(planData), expiresAt)
             /\ planUpdates' = CountUpdate(sl.orderId)
             /\ slots' = [slots EXCEPT ![s] = Respond(@, 302, "success")]
        ELSE /\ UNCHANGED <<users, planUpdates>>
             /\ slots' = [slots EXCEPT ![s] =
                            Respond(@, 302, "activation_failed")]
  /\ UNCHANGED <<payments, usageTracking, recordings, now, environment>>

(* ---------------- POST /api/payment/verify ----------------------------- *)
\* the branch taken after storage.getPayment and PGOrderFetchPayments
VerifyBranch(rec, reply) ==
  IF reply = "ERROR" THEN "error"
  ELSE IF reply = "EMPTY" /\ environment = "sandbox" /\ rec.status # "absent"
       THEN "sandbox"
  ELSE IF reply = "EMPTY" THEN "payment_not_found"
  ELSE IF rec.status = "absent" THEN "record_not_found"
  ELSE IF reply = "SUCCESS" THEN "success"
  ELSE "failed"

VerifyReceive(s, u, o, reply) ==
  /\ Free(s)
  /\ LET rec == getPayment(o)
         b == VerifyBranch(rec, reply)
         sl == [IdleSlot EXCEPT !.kind = "verify", !.orderId = o,
                                !.calls = 1]
     IN slots' = [slots EXCEPT ![s] =
          CASE b = "error" -> Respond(sl, 500, "error")
            [] b \in {"payment_not_found", "record_not_found"} ->
                 Respond(sl, 400, b)
            [] b = "sandbox" -> [Activation(sl, rec) EXCEPT !.branch = b]
            [] b = "success" ->
                 [Activation(sl, rec) EXCEPT !.branch = b]
            [] b = "failed" -> [sl EXCEPT !.pc = "markFailed"]]
  /\ UNCHANGED <<users, payments, usageTracking, recordings, now,
                 environment, planUpdates>>

VerifyMarkPaid(s, dbok) ==
  /\ Running(s, "verify", "markPaid")
  /\ IF dbok
     THEN /\ payments' = updatePaymentStatus(payments, slots[s].orderId,
                                            "paid", "set")
          /\ slots' = [slots EXCEPT ![s].pc = "plan"]
     ELSE /\ UNCHANGED payments
          /\ slots' = [slots EXCEPT ![s] = Respond(@, 500, "error")]
  /\ UNCHANGED <<users, usageTracking, recordings, now, environment,
                 planUpdates>>

VerifyActivatePlan(s, dbok) ==
  /\ Running(s, "verify", "plan")
  /\ LET sl == slots[s]
         plan == PLAN_PRICING[sl.planType]
     IN IF dbok
        THEN /\ users' = updateUserPlan(users, sl.userId, sl.planType,
                                        minutesToAdd(plan), expiresAt)
             /\ planUpdates' = CountUpdate(sl.orderId)
             /\ slots' = [slots EXCEPT ![s] =
                  IF sl.branch = "sandbox" THEN Respond(@, 200, "success")
                  ELSE [@ EXCEPT !.pc = "redirect"]]
        ELSE /\ UNCHANGED <<users, planUpdates>>
             /\ slots' = [slots EXCEPT ![s] = Respond(@, 500, "error")]
  /\ UNCHANGED <<payments, usageTracking, recordings, now, environment>>

\* storage.getUser, getUserRedirectUrl(updatedUser, host), the response
VerifyRedirect(s, h) ==
  /\ Running(s, "verify", "redirect")
  /\ LET redirectUrl == getUserRedirectUrl(getUser(slots[s].userId), h)
         finalRedirectUrl == IF redirectUrl # "null" THEN redirectUrl
                             ELSE "https://app.superflow.work/dashboard"
     IN slots' = [slots EXCEPT ![s] =
          Respond([@ EXCEPT !.host = h, !.redirectTo = finalRedirectUrl],
                  200, "success")]
  /\ UNCHANGED <<users, payments, usageTracking, recordings, now,
                 environment, planUpdates>>

VerifyMarkFailed(s, dbok) ==
  /\ Running(s, "verify", "markFailed")
  /\ IF dbok
     THEN /\ payments' = updatePaymentStatus(payments, slots[s].orderId,
                                            "failed", "undefined")
          /\ slots' = [slots EXCEPT ![s] = Respond(@, 200, "failed")]
     ELSE /\ UNCHANGED payments
          /\ slots' = [slots EXCEPT ![s] = Respond(@, 500, "error")]
  /\ UNCHANGED <<users, usageTracking, recordings, now, environment,
                 planUpdates>>

(* ---------------- POST /api/payment/create-order ----------------------- *)
\* the handler reads validationResult, which it never declares: the
\* ReferenceError is caught and answered with 500 before any other step
CreateOrder(s, u, planType) ==
  /\ Free(s)
  /\ slots' = [slots EXCEPT ![s] =
       Respond([IdleSlot EXCEPT !.kind = "createOrder", !.userId = u,
                                !.planType = planType], 500, "error")]
  /\ UNCHANGED <<users, payments, usageTracking, recordings, now,
                 environment, planUpdates>>

(* ---------------- POST /api/payment/test-success ----------------------- *)
TestPlanTypes == {"lite", "max", "free"}

TestSuccessReceive(s, o, planType, u) ==
  /\ Free(s)
  /\ LET sl == [IdleSlot EXCEPT !.kind = "testSuccess", !.orderId = o,
                                !.planType = planType, !.userId = u]
     IN slots' = [slots EXCEPT ![s] =
          [sl EXCEPT !.pc = IF getPayment(o).status = "absent" THEN "create"
                            ELSE "markPaid"]]
  /\ UNCHANGED <<users, payments, usageTracking, recordings, now,
                 environment, planUpdates>>

\* createPaymentOrder({..., amount: PLAN_PRICING[planType].amount}) and the
\* second getPayment; a plan type outside the table raises a TypeError
TestSuccessCreate(s, dbok) ==
  /\ Running(s, "testSuccess", "create")
  /\ LET sl == slots[s]
     IN IF sl.planType \in PlanNames /\ dbok
        THEN /\ payments' = createPaymentOrder(payments, sl.orderId, sl.userId,
                               sl.planType, PLAN_PRICING[sl.planType].amount)
             /\ slots' = [slots EXCEPT ![s].pc = "markPaid"]
        ELSE /\ UNCHANGED payments
             /\ slots' = [slots EXCEPT ![s] = Respond(@, 500, "error")]
  /\ UNCHANGED <<users, usageTracking, recordings, now, environment,
                 planUpdates>>

\* updatePaymentStatus(orderId, "paid", new Date()), then plan.minutes
TestSuccessMarkPaid(s, dbok) ==
  /\ Running(s, "testSuccess", "markPaid")
  /\ IF dbok
     THEN /\ payments' = updatePaymentStatus(payments, slots[s].orderId,
                                            "paid", "set")
          /\ slots' = [slots EXCEPT ![s] =
               IF slots[s].planType \in PlanNames
               THEN [@ EXCEPT !.pc = "plan"]
               ELSE Respond(@, 500, "error")]
     ELSE /\ UNCHANGED payments
          /\ slots' = [slots EXCEPT ![s] = Respond(@, 500, "error")]
  /\ UNCHANGED <<users, usageTracking, recordings, now, environment,
                 planUpdates>>

\* updateUserPlan(userId, planType, ...) with both taken from the body
TestSuccessActivatePlan(s, dbok) ==
  /\ Running(s, "testSuccess", "plan")
  /\ LET sl == slots[s]
         plan == PLAN_PRICING[sl.planType]
     IN IF dbok
        THEN /\ users' = updateUserPlan(users, sl.userId, sl.planType,
                                        minutesToAdd(plan), expiresAt)
             /\ slots' = [slots EXCEPT ![s] = Respond(@, 200, "success")]
        ELSE /\ UNCHANGED users
             /\ slots' = [slots EXCEPT ![s] = Respond(@, 500, "error")]
  /\ UNCHANGED <<payments, usageTracking, recordings, now, environment,
                 planUpdates>>

(* ---------------- POST /api/payment/test-webhook ----------------------- *)
TestStatuses == {"PAID", "FAILED"}

TestWebhookReceive(s, o, status, dbok) ==
  /\ Free(s)
  /\ LET rec == getPayment(o)
         sl == [IdleSlot EXCEPT !.kind = "testWebhook", !.orderId = o]
     IN IF environment # "sandbox"
        THEN /\ slots' = [slots EXCEPT ![s] = Respond(sl, 403, "sandbox_only")]
             /\ UNCHANGED payments
        ELSE IF status = "PAID"
        THEN /\ slots' = [slots EXCEPT ![s] =
                  IF rec.status = "absent"
                  THEN Respond(sl, 400, "record_not_found")
                  ELSE Activation(sl, rec)]
             /\ UNCHANGED payments
        ELSE IF dbok
        THEN /\ payments' = updatePaymentStatus(payments, o, "failed",
                                               "undefined")
             /\ slots' = [slots EXCEPT ![s] = Respond(sl, 200, "failed")]
        ELSE /\ slots' = [slots EXCEPT ![s] = Respond(sl, 500, "error")]
             /\ UNCHANGED payments
  /\ UNCHANGED <<users, usageTracking, recordings, now, environment,
                 planUpdates>>

TestWebhookMarkPaid(s, dbok) ==
  /\ Running(s, "testWebhook", "markPaid")
  /\ IF dbok
     THEN /\ payments' = updatePaymentStatus(payments, slots[s].orderId,
                                            "paid", "set")
          /\ slots' = [slots EXCEPT ![s].pc = "plan"]
     ELSE /\ UNCHANGED payments
          /\ slots' = [slots EXCEPT ![s] = Respond(@, 500, "error")]
  /\ UNCHANGED <<users, usageTracking, recordings, now, environment,
                 planUpdates>>

TestWebhookActivatePlan(s, dbok) ==
  /\ Running(s, "testWebhook", "plan")
  /\ LET sl == slots[s]
         plan == PLAN_PRICING[sl.planType]
     IN IF dbok
        THEN /\ users' = updateUserPlan(users, sl.userId, sl.planType,
                                        minutesToAdd(plan), expiresAt)
             /\ slots' = [slots EXCEPT ![s] = Respond(@, 200, "success")]
        ELSE /\ UNCHANGED users
             /\ slots' = [slots EXCEPT ![s] = Respond(@, 500, "error")]
  /\ UNCHANGED <<payments, usageTracking, recordings, now, environment,
                 planUpdates>>

(* ---------------- storage.deductMinutes -------------------------------- *)
\* variant: rounding down
Floor(a, b) == a \div b

\* Math.ceil(a / b) for b > 0
Ceil(a, b) == 0 - ((0 - a) \div b)

Max(a, b) == IF a >= b THEN a ELSE b

\* Math.max(0, (user.minutesRemaining || 0) - durationMinutes)
remainingAfter(user, durationSeconds) ==
  LET durationMinutes == Ceil(durationSeconds, 60)
  IN Max(0, user.minutesRemaining - durationMinutes)

\* what the caller does when deductMinutes or createRecording throws: the
\* transcribe handler logs the error and still answers with the transcript
DeductFailed(sl) ==
  IF sl.kind = "transcribe" THEN Respond(sl, 200, "success")
  ELSE Respond(sl, 500, "error")

\* const user = await this.getUser(userId), and the new balance
DeductRead(s, dbok) ==
  /\ slots[s].pc = "deductRead"
  /\ Stepping
  /\ slots' = [slots EXCEPT ![s] =
       IF dbok
       THEN [@ EXCEPT !.pc = "deductTrack",
                      !.remaining = remainingAfter(
                          getUser(slots[s].userId), slots[s].duration)]
       ELSE DeductFailed(@)]
  /\ UNCHANGED <<users, payments, usageTracking, recordings, now,
                 environment, planUpdates>>

\* await this.trackUsage({userId, duration, remainingMinutes})
DeductTrack(s, dbok) ==
  /\ slots[s].pc = "deductTrack"
  /\ Stepping
  /\ LET sl == slots[s]
     IN IF dbok
        THEN /\ usageTracking' = trackUsage(usageTracking, sl.userId,
                                            sl.duration, sl.remaining)
             /\ slots' = [slots EXCEPT ![s].pc = "deductWrite"]
        ELSE /\ UNCHANGED usageTracking
             /\ slots' = [slots EXCEPT ![s] = DeductFailed(@)]
  /\ UNCHANGED <<users, payments, recordings, now, environment, planUpdates>>

\* variant: the write decrements the balance that is stored at that moment
DeductWriteAtomic(s, dbok) ==
  /\ slots[s].pc = "deductWrite"
  /\ Stepping
  /\ LET sl == slots[s]
     IN IF dbok
        THEN /\ users' = [users EXCEPT
                            ![sl.userId].minutesRemaining =
                              remainingAfter(users[sl.userId], sl.duration)]
             /\ slots' = [slots EXCEPT ![s] =
                  IF sl.kind = "transcribe" THEN [@ EXCEPT !.pc = "save"]
                  ELSE Respond(@, 200, "success")]
        ELSE /\ UNCHANGED users
             /\ slots' = [slots EXCEPT ![s] = DeductFailed(@)]
  /\ UNCHANGED <<payments, usageTracking, recordings, now, environment,
                 planUpdates>>

\* db.update(users).set({minutesRemaining: remainingMinutes})
DeductWrite(s, dbok) ==
  /\ slots[s].pc = "deductWrite"
  /\ Stepping
  /\ LET sl == slots[s]
     IN IF dbok
        THEN /\ users' = [users EXCEPT
                            ![sl.userId].minutesRemaining = sl.remaining]
             /\ slots' = [slots EXCEPT ![s] =
                  IF sl.kind = "transcribe" THEN [@ EXCEPT !.pc = "save"]
                  ELSE Respond(@, 200, "success")]
        ELSE /\ UNCHANGED users
             /\ slots' = [slots EXCEPT ![s] = DeductFailed(@)]
  /\ UNCHANGED <<payments, usageTracking, recordings, now, environment,
                 planUpdates>>

\* a call of deductMinutes on its own, with any duration
Durations == {0, 1, 59, 60, 61, 120}

DeductCall(s, u, durationSeconds) ==
  /\ Free(s)
  /\ UsageDemand < MaxUsage
  /\ slots' = [slots EXCEPT ![s] =
       [IdleSlot EXCEPT !.kind = "deduct", !.pc = "deductRead",
                        !.userId = u, !.duration = durationSeconds]]
  /\ UNCHANGED <<users, payments, usageTracking, recordings, now,
                 environment, planUpdates>>

(* ---------------- POST /api/transcribe --------------------------------- *)
WhisperReplies == {"ok", "empty", "error"}

\* variant: a recording without speech is charged like any other
ProvidersChargeEmpty(sl, whisper) ==
  IF whisper = "error" THEN Respond([sl EXCEPT !.calls = 1], 500,
                                    "WHISPER_ERROR")
  ELSE IF sl.userId # 0
       THEN [sl EXCEPT !.calls = IF whisper = "empty" THEN 1 ELSE 2,
                       !.pc = "deductRead",
                       !.duration = recordingDurationSeconds]
  ELSE IF whisper = "empty" THEN Respond([sl EXCEPT !.calls = 1], 400,
                                         "WHISPER_ERROR")
  ELSE Respond([sl EXCEPT !.calls = 2], 200, "success")

\* the transcription and the enhancement call; a failed enhancement falls
\* back to the raw transcript
Providers(sl, whisper) ==
  IF whisper = "error" THEN Respond([sl EXCEPT !.calls = 1], 500,
                                    "WHISPER_ERROR")
  ELSE IF whisper = "empty" THEN Respond([sl EXCEPT !.calls = 1], 400,
                                         "WHISPER_ERROR")
  ELSE IF sl.userId # 0 THEN [sl EXCEPT !.calls = 2, !.pc = "deductRead",
                                 !.duration = recordingDurationSeconds]
  ELSE Respond([sl EXCEPT !.calls = 2], 200, "success")

\* attachUser and the checks of the upload; u = 0 is an anonymous request
TranscribeReceive(s, u, fileOk, whisper) ==
  /\ Free(s)
  /\ u # 0 => UsageDemand < MaxUsage
  /\ LET sl == [IdleSlot EXCEPT !.kind = "transcribe", !.userId = u]
     IN slots' = [slots EXCEPT ![s] =
          IF ~fileOk THEN Respond(sl, 400, "UPLOAD_ERROR")
          ELSE IF u # 0 THEN [sl EXCEPT !.pc = "check"]
          ELSE Providers(sl, whisper)]
  /\ UNCHANGED <<users, payments, usageTracking, recordings, now,
                 environment, planUpdates>>

\* variant: a balance of zero passes
UsageLimitExceededBelowZero(remainingMinutes) == remainingMinutes < 0

\* if (remainingMinutes <= 0)
UsageLimitExceeded(remainingMinutes) == remainingMinutes <= 0

\* storage.checkMinutesRemaining, then the providers
TranscribeCheck(s, whisper, dbok) ==
  /\ Running(s, "transcribe", "check")
  /\ LET remainingMinutes == checkMinutesRemaining(slots[s].userId)
         sl == [slots[s] EXCEPT !.remaining = remainingMinutes]
     IN slots' = [slots EXCEPT ![s] =
          IF ~dbok THEN Respond(slots[s], 500, "SERVER_ERROR")
          ELSE IF UsageLimitExceeded(remainingMinutes)
               THEN Respond(sl, 403, "USAGE_LIMIT_EXCEEDED")
          ELSE Providers(slots[s], whisper)]
  /\ UNCHANGED <<users, payments, usageTracking, recordings, now,
                 environment, planUpdates>>

\* storage.createRecording
TranscribeSave(s, dbok) ==
  /\ Running(s, "transcribe", "save")
  /\ recordings' = IF dbok
                   THEN [recordings EXCEPT ![slots[s].userId] = @ + 1]
                   ELSE recordings
  /\ slots' = [slots EXCEPT ![s] = Respond(@, 200, "success")]
  /\ UNCHANGED <<users, payments, usageTracking, now, environment,
                 planUpdates>>

(* ---------------- auth.ts: checkPlanExpiry, GET /api/me ---------------- *)
\* the result checkPlanExpiry computes from the row it has read
\* variant: every expired row is downgraded, premium or not
ExpiryStatusIgnoresPremium(user) ==
  IF user.planExpiresAt = NoDate THEN NoStatus
  ELSE LET timeDiff == user.planExpiresAt[1] - now
           daysLeft == Ceil(timeDiff, DayTicks)
           expired == timeDiff <= 0
       IN [isExpired |-> expired, daysLeft |-> daysLeft,
           shouldDowngrade |-> expired]

ExpiryStatus(user) ==
  IF user.planExpiresAt = NoDate THEN NoStatus
  ELSE LET timeDiff == user.planExpiresAt[1] - now
           daysLeft == Ceil(timeDiff, DayTicks)
           expired == timeDiff <= 0
       IN [isExpired |-> expired, daysLeft |-> daysLeft,
           shouldDowngrade |-> expired /\ user.isPremium]

\* reason: user.isPremium ? "premium_access" : "free_user"
RedirectReason(user) ==
  IF user.isPremium THEN "premium_access" ELSE "free_user"

\* the response of /api/me; planStatus is part of it when daysLeft >= 0
MeResponse(sl, currentUser, h, expiryStatus) ==
  LET redirectUrl == getUserRedirectUrl(currentUser, h)
  IN Respond([sl EXCEPT
                !.user = currentUser, !.host = h, !.redirectTo = redirectUrl,
                !.reason = IF redirectUrl = "null" THEN ""
                           ELSE RedirectReason(currentUser),
                !.expiryStatus = expiryStatus], 200, "ok")

\* attachUser: req.user is the row read when the request arrived
MeReceive(s, u) ==
  /\ Free(s)
  /\ LET sl == [IdleSlot EXCEPT !.kind = "me", !.userId = u]
     IN slots' = [slots EXCEPT ![s] =
          IF u = 0 THEN Respond(sl, 401, "not_authenticated")
          ELSE [sl EXCEPT !.pc = "sweep", !.user = getUser(u)]]
  /\ UNCHANGED <<users, payments, usageTracking, recordings, now,
                 environment, planUpdates>>

\* checkPlanExpiry up to its write
MeSweep(s, h, dbok) ==
  /\ Running(s, "me", "sweep")
  /\ LET sl == slots[s]
         st == ExpiryStatus(getUser(sl.userId))
     IN slots' = [slots EXCEPT ![s] =
          IF ~dbok THEN MeResponse(sl, sl.user, h, NoStatus)
          ELSE IF st.shouldDowngrade
               THEN [sl EXCEPT !.pc = "downgrade", !.expiryStatus = st]
          ELSE MeResponse(sl, sl.user, h, st)]
  /\ UNCHANGED <<users, payments, usageTracking, recordings, now,
                 environment, planUpdates>>

\* storage.updateUser(userId, {planType: 'free', isPremium: false,
\* minutesRemaining: 30}); an error makes checkPlanExpiry report nothing
MeDowngrade(s, h, dbok) ==
  /\ Running(s, "me", "downgrade")
  /\ LET sl == slots[s]
     IN IF dbok
        THEN /\ users' = updateUser(users, sl.userId,
                           [planType |-> "free", isPremium |-> FALSE,
                            minutesRemaining |-> SweepMinutes])
             /\ slots' = [slots EXCEPT ![s].pc = "refetch"]
        ELSE /\ UNCHANGED users
             /\ slots' = [slots EXCEPT ![s] =
                            MeResponse(sl, sl.user, h, NoStatus)]
  /\ UNCHANGED <<payments, usageTracking, recordings, now, environment,
                 planUpdates>>

\* currentUser = await storage.getUser(req.user.id) || req.user
MeRefetch(s, h, dbok) ==
  /\ Running(s, "me", "refetch")
  /\ LET sl == slots[s]
     IN slots' = [slots EXCEPT ![s] =
          IF dbok THEN MeResponse(sl, getUser(sl.userId), h, sl.expiryStatus)
          ELSE Respond(sl, 500, "error")]
  /\ UNCHANGED <<users, payments, usageTracking, recordings, now,
                 environment, planUpdates>>

(* --------------------- GET /api/auth/check-routing --------------------- *)
\* variant: the inline copy tests premium access before expiry
checkRoutingPremiumFirst(user, host) ==
  LET mainApp == includes(host, <<"superflow", ".", "work">>)
                 /\ ~includes(host, <<"app", ".">>)
      premiumApp == includes(host, <<"app", ".", "superflow", ".", "work">>)
      premiumAccess == user.isPremium /\ user.planType # "free"
      expired == user.planExpiresAt # NoDate /\ now > user.planExpiresAt[1]
  IN IF premiumAccess
     THEN [redirectTo |-> IF mainApp
                          THEN "https://app.superflow.work/dashboard"
                          ELSE "null",
           shouldRedirect |-> mainApp]
     ELSE IF expired
     THEN [redirectTo |-> IF mainApp THEN "null"
                          ELSE "https://superflow.work/premium",
           shouldRedirect |-> ~mainApp]
     ELSE [redirectTo |-> IF premiumApp THEN "https://superflow.work/dashboard"
                          ELSE "null",
           shouldRedirect |-> premiumApp]

\* the decision computed inline by the handler
checkRouting(user, host) ==
  LET mainApp == includes(host, <<"superflow", ".", "work">>)
                 /\ ~includes(host, <<"app", ".">>)
      premiumApp == includes(host, <<"app", ".", "superflow", ".", "work">>)
      premiumAccess == user.isPremium /\ user.planType # "free"
      expired == user.planExpiresAt # NoDate /\ now > user.planExpiresAt[1]
  IN IF expired
     THEN [redirectTo |-> IF mainApp THEN "null"
                          ELSE "https://superflow.work/premium",
           shouldRedirect |-> ~mainApp]
     ELSE IF premiumAccess
     THEN [redirectTo |-> IF mainApp
                          THEN "https://app.superflow.work/dashboard"
                          ELSE "null",
           shouldRedirect |-> mainApp]
     ELSE [redirectTo |-> IF premiumApp THEN "https://superflow.work/dashboard"
                          ELSE "null",
           shouldRedirect |-> premiumApp]

\* requireAuth reads the row of the session's user (u = 0: no session), the
\* handler answers with the inline decision
CheckRouting(s, u, h, dbok) ==
  /\ Free(s)
  /\ LET sl == [IdleSlot EXCEPT !.kind = "routing", !.userId = u]
     IN slots' = [slots EXCEPT ![s] =
          IF u = 0 THEN Respond(sl, 401, "authentication_required")
          ELSE IF ~dbok THEN Respond(sl, 500, "authentication_error")
          ELSE LET user == getUser(u)
                   decision == checkRouting(user, h)
               IN Respond([sl EXCEPT !.user = user, !.host = h,
                                     !.redirectTo = decision.redirectTo,
                                     !.branch = IF decision.shouldRedirect
                                                THEN "shouldRedirect"
                                                ELSE "stay"],
                          200, "ok")]
  /\ UNCHANGED <<users, payments, usageTracking, recordings, now,
                 environment, planUpdates>>

(* ------------------ POST /api/auth/cross-domain-login ------------------ *)
\* the whole handler: the body's sessionId, the session's user id (0 when the
\* session holds none), one read of the user row, the premium test
CrossDomainLogin(s, sessionId, u, dbok) ==
  /\ Free(s)
  /\ LET sl == [IdleSlot EXCEPT !.kind = "login", !.userId = u]
     IN slots' = [slots EXCEPT ![s] =
          IF ~sessionId THEN Respond(sl, 400, "session_id_required")
          ELSE IF u = 0 THEN Respond(sl, 401, "invalid_session")
          ELSE IF ~dbok THEN Respond(sl, 500, "error")
          ELSE LET user == getUser(u)
               IN IF ~user.isPremium \/ user.planType = "free"
                  THEN Respond([sl EXCEPT
                                  !.user = user,
                                  !.redirectTo =
                                    "https://superflow.work/premium"],
                               403, "premium_access_required")
                  ELSE Respond([sl EXCEPT !.user = user], 200, "success")]
  /\ UNCHANGED <<users, payments, usageTracking, recordings, now,
                 environment, planUpdates>>

(* ------------------------ db.ts: withDbRetry -------------------------- *)
\* what an attempt of the operation can throw: an error code and the words
\* of its message
DbErrors ==
  {[code |-> "57P01", message |-> <<"terminating", "connection">>],
   [code |-> "ECONNRESET", message |-> <<"read", "ECONNRESET">>],
   [code |-> "ENOTFOUND", message |-> <<"getaddrinfo", "ENOTFOUND">>],
   [code |-> "ECONNREFUSED", message |-> <<"connect", "ECONNREFUSED">>],
   [code |-> "", message |-> <<"Connection", "terminated", "unexpectedly">>],
   [code |-> "", message |-> <<"the", "connection", "was", "closed">>],
   [code |-> "", message |-> <<"Connection", "lost">>],
   [code |-> "ETIMEDOUT", message |-> <<"connect", "ETIMEDOUT">>],
   [code |-> "23505", message |-> <<"duplicate", "key">>],
   [code |-> "", message |-> <<>>]}

\* variant: every error is retried
isRetryableErrorAlways(error) == TRUE

isRetryableError(error) ==
  \/ error.code = "57P01"
  \/ error.code = "ECONNRESET"
  \/ error.code = "ENOTFOUND"
  \/ error.code = "ECONNREFUSED"
  \/ includes(error.message, <<"Connection", "terminated">>)
  \/ includes(error.message, <<"connection", "was", "closed">>)
  \/ includes(error.message, <<"Connection", "lost">>)

\* the call: with maxRetries < 1 the loop body never runs and the function
\* throws lastError, which was never assigned
RetryCall(s, limit) ==
  /\ Free(s)
  /\ LET sl == [IdleSlot EXCEPT !.kind = "dbRetry", !.maxRetries = limit]
     IN slots' = [slots EXCEPT ![s] =
          IF limit >= 1 THEN [sl EXCEPT !.pc = "attempt"]
          ELSE Respond(sl, 0, "thrown")]
  /\ UNCHANGED <<users, payments, usageTracking, recordings, now,
                 environment, planUpdates>>

\* one pass of the loop: await operation(), and in the catch the test and
\* the wait before the next pass; calls counts the runs of the operation
RetryAttempt(s, ok, error) ==
  /\ Running(s, "dbRetry", "attempt")
  /\ LET sl == [slots[s] EXCEPT !.calls = @ + 1]
         attempt == sl.calls
     IN slots' = [slots EXCEPT ![s] =
          IF ok THEN Respond(sl, 0, "returned")
          ELSE LET failed == [sl EXCEPT !.lastError = error]
               IN IF ~isRetryableError(error)
                     \/ attempt = sl.maxRetries
                  THEN Respond(failed, 0, "thrown")
                  ELSE failed]
  /\ UNCHANGED <<users, payments, usageTracking, recordings, now,
                 environment, planUpdates>>

(* --------------------------- environment ------------------------------- *)
\* the requests still in flight, moved to the first slots
Compact(sl) ==
  LET run == SelectSeq(sl, LAMBDA x : x.kind # "idle")
  IN [i \in Slots |-> IF i <= Len(run) THEN run[i] ELSE IdleSlot]

\* the response has been sent; the slot is free for the next request
Finish(s) ==
  /\ slots[s].pc = "done"
  /\ slots' = Compact([slots EXCEPT ![s] = IdleSlot])
  /\ UNCHANGED <<users, payments, usageTracking, recordings, now,
                 environment, planUpdates>>

Tick ==
  /\ now < MaxTime
  /\ Stepping
  /\ now' = now + 1
  /\ UNCHANGED <<users, payments, usageTracking, recordings, environment,
                 slots, planUpdates>>

(* ------------------------------ Init ----------------------------------- *)
InitOrderPlans == {"lite", "max"}

\* no order yet, or one order of user u awaiting payment
InitPayments ==
  {[o \in OrderIds |-> AbsentPayment]} \cup
  {createPaymentOrder([o \in OrderIds |-> AbsentPayment], "order_1_42", u, p,
                      PLAN_PRICING[p].amount) :
     u \in UserIds, p \in InitOrderPlans}

\* a slot that takes no request
OffSlot == [IdleSlot EXCEPT !.kind = "off"]

InitCommon ==
  /\ usageTracking = <<>>
  /\ recordings = [u \in UserIds |-> 0]
  /\ now = 0
  /\ environment \in {"sandbox", "production"}
  /\ planUpdates = [o \in OrderIds |-> 0]

\* the payment endpoints, two requests at a time, the clock standing still
InitPay ==
  /\ InitCommon
  /\ users = [u \in UserIds |-> NewUser]
  /\ payments \in InitPayments
  /\ slots = [s \in Slots |-> IdleSlot]

NextPay ==
  \/ \E s \in Slots, o \in OrderIds, ev \in WebhookEvents,
        present \in BOOLEAN, valid \in BOOLEAN, dbok \in BOOLEAN :
       WebhookReceive(s, o, ev, present, valid, dbok)
  \/ \E s \in Slots, dbok \in BOOLEAN : WebhookMarkPaid(s, dbok)
  \/ \E s \in Slots, dbok \in BOOLEAN : WebhookActivatePlan(s, dbok)
  \/ \E s \in Slots, dbok \in BOOLEAN : WebhookTrackUsage(s, dbok)
  \/ \E s \in Slots, o \in OrderIds \cup {""}, urlStatus \in UrlStatuses,
        replies \in [1..maxRetries -> LoopReplies] :
       ReturnReceive(s, o, urlStatus, replies)
  \/ \E s \in Slots, dbok \in BOOLEAN : ReturnMarkPaid(s, dbok)
  \/ \E s \in Slots, dbok \in BOOLEAN : ReturnActivatePlan(s, dbok)
  \/ \E s \in Slots, u \in UserIds, o \in OrderIds,
        reply \in GatewayReplies : VerifyReceive(s, u, o, reply)
  \/ \E s \in Slots, dbok \in BOOLEAN : VerifyMarkPaid(s, dbok)
  \/ \E s \in Slots, dbok \in BOOLEAN : VerifyActivatePlan(s, dbok)
  \/ \E s \in Slots, dbok \in BOOLEAN : VerifyMarkFailed(s, dbok)
  \/ \E s \in Slots, h \in Hosts : VerifyRedirect(s, h)
  \/ \E s \in Slots, u \in UserIds, p \in PlanNames : CreateOrder(s, u, p)
  \/ \E s \in Slots, o \in OrderIds, p \in TestPlanTypes, u \in UserIds :
       TestSuccessReceive(s, o, p, u)
  \/ \E s \in Slots, dbok \in BOOLEAN : TestSuccessCreate(s, dbok)
  \/ \E s \in Slots, dbok \in BOOLEAN : TestSuccessMarkPaid(s, dbok)
  \/ \E s \in Slots, dbok \in BOOLEAN : TestSuccessActivatePlan(s, dbok)
  \/ \E s \in Slots, o \in OrderIds, st \in TestStatuses, dbok \in BOOLEAN :
       TestWebhookReceive(s, o, st, dbok)
  \/ \E s \in Slots, dbok \in BOOLEAN : TestWebhookMarkPaid(s, dbok)
  \/ \E s \in Slots, dbok \in BOOLEAN : TestWebhookActivatePlan(s, dbok)
  \/ \E s \in Slots : Finish(s)

SpecPay == InitPay /\ [][NextPay]_vars

(* ---------- recordings and the webhook, the clock standing still ------- *)
InitMinutes == {1, FreeMinutes}

InitUse ==
  /\ InitCommon
  /\ users \in {[u \in UserIds |-> [NewUser EXCEPT !.minutesRemaining = m]] :
                  m \in InitMinutes}
  /\ payments \in InitPayments
  /\ slots = [s \in Slots |-> IdleSlot]

NextUse ==
  \/ \E s \in Slots, u \in UserIds \cup {0}, fileOk \in BOOLEAN,
        whisper \in WhisperReplies : TranscribeReceive(s, u, fileOk, whisper)
  \/ \E s \in Slots, whisper \in WhisperReplies, dbok \in BOOLEAN :
       TranscribeCheck(s, whisper, dbok)
  \/ \E s \in Slots, dbok \in BOOLEAN : DeductRead(s, dbok)
  \/ \E s \in Slots, dbok \in BOOLEAN : DeductTrack(s, dbok)
  \/ \E s \in Slots, dbok \in BOOLEAN : DeductWrite(s, dbok)
  \/ \E s \in Slots, dbok \in BOOLEAN : TranscribeSave(s, dbok)
  \/ \E s \in Slots, o \in OrderIds, ev \in WebhookEvents,
        present \in BOOLEAN, valid \in BOOLEAN, dbok \in BOOLEAN :
       WebhookReceive(s, o, ev, present, valid, dbok)
  \/ \E s \in Slots, dbok \in BOOLEAN : WebhookMarkPaid(s, dbok)
  \/ \E s \in Slots, dbok \in BOOLEAN : WebhookActivatePlan(s, dbok)
  \/ \E s \in Slots, dbok \in BOOLEAN : WebhookTrackUsage(s, dbok)
  \/ \E s \in Slots : Finish(s)

SpecUse == InitUse /\ [][NextUse]_vars

(* ---------- /api/me and the webhook, with the clock -------------------- *)
NextExpiry ==
  \/ \E s \in Slots, u \in UserIds \cup {0} : MeReceive(s, u)
  \/ \E s \in Slots, h \in Hosts, dbok \in BOOLEAN : MeSweep(s, h, dbok)
  \/ \E s \in Slots, h \in Hosts, dbok \in BOOLEAN : MeDowngrade(s, h, dbok)
  \/ \E s \in Slots, h \in Hosts, dbok \in BOOLEAN : MeRefetch(s, h, dbok)
  \/ \E s \in Slots, sessionId \in BOOLEAN, u \in UserIds \cup {0},
        dbok \in BOOLEAN : CrossDomainLogin(s, sessionId, u, dbok)
  \/ \E s \in Slots, u \in UserIds \cup {0}, h \in Hosts, dbok \in BOOLEAN :
       CheckRouting(s, u, h, dbok)
  \/ \E s \in Slots, o \in OrderIds, ev \in WebhookEvents,
        present \in BOOLEAN, valid \in BOOLEAN, dbok \in BOOLEAN :
       WebhookReceive(s, o, ev, present, valid, dbok)
  \/ \E s \in Slots, dbok \in BOOLEAN : WebhookMarkPaid(s, dbok)
  \/ \E s \in Slots, dbok \in BOOLEAN : WebhookActivatePlan(s, dbok)
  \/ \E s \in Slots, dbok \in BOOLEAN : WebhookTrackUsage(s, dbok)
  \/ \E s \in Slots : Finish(s)
  \/ Tick

SpecExpiry == InitUse /\ [][NextExpiry]_vars

(* ---------- deductMinutes, one call after the other -------------------- *)
DeductMinutes == {0, 1, 2, FreeMinutes}

InitDeduct ==
  /\ InitCommon
  /\ users \in {[u \in UserIds |-> [NewUser EXCEPT !.minutesRemaining = m]] :
                  m \in DeductMinutes}
  /\ payments = [o \in OrderIds |-> AbsentPayment]
  /\ slots = [s \in Slots |-> IF s = 1 THEN OffSlot ELSE IdleSlot]

NextDeduct ==
  \/ \E s \in Slots, u \in UserIds, d \in Durations : DeductCall(s, u, d)
  \/ \E s \in Slots, dbok \in BOOLEAN : DeductRead(s, dbok)
  \/ \E s \in Slots, dbok \in BOOLEAN : DeductTrack(s, dbok)
  \/ \E s \in Slots, dbok \in BOOLEAN : DeductWrite(s, dbok)
  \/ \E s \in Slots : Finish(s)

SpecDeduct == InitDeduct /\ [][NextDeduct]_vars

(* ---------- deductMinutes and the activations, one request at a time --- *)
InitLedger ==
  /\ InitCommon
  /\ users \in {[u \in UserIds |-> [NewUser EXCEPT !.minutesRemaining = m]] :
                  m \in InitMinutes}
  /\ payments \in InitPayments
  /\ slots = [s \in Slots |-> IF s = 1 THEN OffSlot ELSE IdleSlot]

NextLedger ==
  \/ \E s \in Slots, u \in UserIds, d \in Durations : DeductCall(s, u, d)
  \/ \E s \in Slots, dbok \in BOOLEAN : DeductRead(s, dbok)
  \/ \E s \in Slots, dbok \in BOOLEAN : DeductTrack(s, dbok)
  \/ \E s \in Slots, dbok \in BOOLEAN : DeductWrite(s, dbok)
  \/ \E s \in Slots, o \in OrderIds, ev \in WebhookEvents,
        present \in BOOLEAN, valid \in BOOLEAN, dbok \in BOOLEAN :
       WebhookReceive(s, o, ev, present, valid, dbok)
  \/ \E s \in Slots, dbok \in BOOLEAN : WebhookMarkPaid(s, dbok)
  \/ \E s \in Slots, dbok \in BOOLEAN : WebhookActivatePlan(s, dbok)
  \/ \E s \in Slots, dbok \in BOOLEAN : WebhookTrackUsage(s, dbok)
  \/ \E s \in Slots, o \in OrderIds \cup {""}, urlStatus \in UrlStatuses,
        replies \in [1..maxRetries -> LoopReplies] :
       ReturnReceive(s, o, urlStatus, replies)
  \/ \E s \in Slots, dbok \in BOOLEAN : ReturnMarkPaid(s, dbok)
  \/ \E s \in Slots, dbok \in BOOLEAN : ReturnActivatePlan(s, dbok)
  \/ \E s \in Slots : Finish(s)

SpecLedger == InitLedger /\ [][NextLedger]_vars

(* ---------- recordings and the verify endpoint, one request at a time -- *)
NextReplay ==
  \/ \E s \in Slots, u \in UserIds \cup {0}, fileOk \in BOOLEAN,
        whisper \in WhisperReplies : TranscribeReceive(s, u, fileOk, whisper)
  \/ \E s \in Slots, whisper \in WhisperReplies, dbok \in BOOLEAN :
       TranscribeCheck(s, whisper, dbok)
  \/ \E s \in Slots, dbok \in BOOLEAN : DeductRead(s, dbok)
  \/ \E s \in Slots, dbok \in BOOLEAN : DeductTrack(s, dbok)
  \/ \E s \in Slots, dbok \in BOOLEAN : DeductWrite(s, dbok)
  \/ \E s \in Slots, dbok \in BOOLEAN : TranscribeSave(s, dbok)
  \/ \E s \in Slots, u \in UserIds, o \in OrderIds,
        reply \in GatewayReplies : VerifyReceive(s, u, o, reply)
  \/ \E s \in Slots, dbok \in BOOLEAN : VerifyMarkPaid(s, dbok)
  \/ \E s \in Slots, dbok \in BOOLEAN : VerifyActivatePlan(s, dbok)
  \/ \E s \in Slots, dbok \in BOOLEAN : VerifyMarkFailed(s, dbok)
  \/ \E s \in Slots, h \in Hosts : VerifyRedirect(s, h)
  \/ \E s \in Slots : Finish(s)

SpecReplay == InitLedger /\ [][NextReplay]_vars

(* ---------- withDbRetry, one call after the other ---------------------- *)
NextRetry ==
  \/ \E s \in Slots, limit \in 0..MaxDbRetries : RetryCall(s, limit)
  \/ \E s \in Slots, ok \in BOOLEAN, error \in DbErrors :
       RetryAttempt(s, ok, error)
  \/ \E s \in Slots : Finish(s)

SpecRetry == InitDeduct /\ [][NextRetry]_vars

\* the awaited operation settles and the timer of the wait fires
SpecRetryLive ==
  SpecRetry
  /\ WF_vars(\E s \in Slots, ok \in BOOLEAN, error \in DbErrors :
               RetryAttempt(s, ok, error))


(* ============================ properties =============================== *)
\* C1: whatever mix of webhook deliveries, return-URL landings and verify
\* calls activates an order, and however their store accesses interleave,
\* the owning user's plan is updated for that order at most once.
C1_ExactlyOneActivation ==
  \A o \in OrderIds : planUpdates[o] <= 1

\* C2: an activation by the webhook, the return-URL landing or the verify
\* endpoint that has marked the order paid does not return before the user's
\* plan has been updated for the order: paid and not granted is never what a
\* caller is left with.
C2_ActivationAtomic ==
  [][\A s \in Slots :
       LET sl == slots[s]
       IN (/\ Stepping
           /\ sl.kind \in {"webhook", "return", "verify"}
           /\ sl.pc = "plan" /\ slots'[s].pc # "plan"
           /\ payments[sl.orderId].status = "paid"
           /\ planUpdates[sl.orderId] < MaxCount)
          => planUpdates'[sl.orderId] = planUpdates[sl.orderId] + 1]_vars

C4_RecheckBeforeMutating ==
  [][\A s \in Slots :
       (Stepping /\ slots[s].kind = "idle" /\ slots'[s].pc = "markPaid")
       => payments[slots'[s].orderId].status # "paid"]_vars

\* C5: once an order is paid it stays paid, whatever arrives afterwards.
C5_PaidStaysPaid ==
  [][\A o \in OrderIds :
       payments[o].status = "paid" => payments'[o].status = "paid"]_vars

\* C6: every plan update made by an activation grants the plan type and the
\* minutes of the pricing entry of the plan recorded on the order, the entry
\* the order's amount was taken from.
C6_SamePricingEntry ==
  [][\A s \in Slots :
       (Stepping /\ slots[s].pc = "plan" /\ slots'[s].pc # "plan"
        /\ users' # users)
       => LET row == payments[slots[s].orderId]
              entry == PLAN_PRICING[row.planType]
              user == users'[row.userId]
          IN /\ row.amount = entry.amount
             /\ user.planType = row.planType
             /\ user.minutesRemaining = minutesToAdd(entry)]_vars

\* C7: a deductMinutes call that runs alone leaves the balance at
\* max(0, balance before - ceil(durationSeconds / 60)), and no balance is
\* ever negative.
C7_DeductCeilClamped ==
  /\ [][\A s \in Slots :
          (/\ Stepping
           /\ slots[s].pc = "deductWrite" /\ slots'[s].pc = "done"
           /\ slots'[s].status = 200)
          => LET u == slots[s].userId
                 cost == (slots[s].duration + 59) \div 60
                 before == users[u].minutesRemaining
             IN users'[u].minutesRemaining =
                  IF before - cost > 0 THEN before - cost ELSE 0]_vars
  /\ [](\A u \in UserIds : users[u].minutesRemaining >= 0)

\* C7 witness: a one-second clip has cost a full minute
C7_Witness ==
  \E s \in Slots :
    /\ slots[s].kind = "deduct" /\ slots[s].pc = "done"
    /\ slots[s].status = 200 /\ slots[s].duration = 1
    /\ users[slots[s].userId].minutesRemaining = FreeMinutes - 1
    /\ usageTracking # <<>>

\* C8: when the balance check of a recording request reads a balance <= 0 the
\* request ends there with 403 USAGE_LIMIT_EXCEEDED: no provider call, no
\* deduction, no usage record and no recording.
C8_NoMinutesNoProcessing ==
  [][\A s \in Slots :
       (/\ Stepping
        /\ slots[s].kind = "transcribe" /\ slots[s].pc = "check"
        /\ slots'[s].pc # "check"
        /\ slots'[s].body # "SERVER_ERROR"
        /\ users[slots[s].userId].minutesRemaining <= 0)
       => /\ slots'[s].pc = "done" /\ slots'[s].status = 403
          /\ slots'[s].body = "USAGE_LIMIT_EXCEEDED"
          /\ slots'[s].calls = 0
          /\ UNCHANGED <<users, usageTracking, recordings>>]_vars

\* C8 witness: a request rejected on a balance the user's recordings have
\* used up
C8_Witness ==
  \E s \in Slots :
    /\ slots[s].kind = "transcribe" /\ slots[s].pc = "done"
    /\ slots[s].body = "USAGE_LIMIT_EXCEEDED" /\ slots[s].calls = 0
    /\ users[slots[s].userId].minutesRemaining = 0
    /\ recordings[slots[s].userId] > 0

\* C9: for every user, isPremium holds exactly when planType is not free.
C9_PremiumIffNotFree ==
  \A u \in UserIds : users[u].isPremium <=> users[u].planType # "free"

\* C9 witness: a user who was activated and then downgraded by the sweep
C9_Witness ==
  \E s \in Slots :
    /\ slots[s].kind = "me" /\ slots[s].pc = "refetch"
    /\ slots[s].expiryStatus.shouldDowngrade
    /\ users[slots[s].userId].planType = "free"
    /\ users[slots[s].userId].planExpiresAt # NoDate

\* the decision table, with the two origins told apart by name
RouteTable(user, h) ==
  IF user.planExpiresAt # NoDate /\ user.planExpiresAt[1] < now
  THEN IF h # MainHost THEN "https://superflow.work/premium" ELSE "null"
  ELSE IF user.isPremium /\ user.planType # "free"
  THEN IF h = MainHost THEN "https://app.superflow.work/dashboard"
       ELSE "null"
  ELSE IF h = PremiumHost THEN "https://superflow.work/dashboard"
       ELSE "null"

\* C10: for every user and both origins the router's answer is the one of
\* the decision table: expiry first, then premium, then free.
C10_RouterDecisionTable ==
  /\ \A u \in UserIds, h \in Hosts :
       getUserRedirectUrl(users[u], h) = RouteTable(users[u], h)
  /\ \A s \in Slots :
       (slots[s].kind = "me" /\ slots[s].pc = "done" /\ slots[s].status = 200)
       => slots[s].redirectTo = RouteTable(slots[s].user, slots[s].host)

\* C10 witness: /api/me on the premium origin sent a user whose plan has
\* expired, and who is still stored as premium, to the upgrade page
C10_Witness ==
  \E s \in Slots :
    /\ slots[s].kind = "me" /\ slots[s].pc = "done"
    /\ slots[s].host = PremiumHost
    /\ slots[s].user.isPremium
    /\ slots[s].redirectTo = "https://superflow.work/premium"

\* the rule of the decision table that produces a redirect for this record
TableReason(user) ==
  IF user.planExpiresAt # NoDate /\ user.planExpiresAt[1] < now
  THEN "expired"
  ELSE IF user.isPremium /\ user.planType # "free" THEN "premium_access"
  ELSE "free_user"

\* C11: every /api/me response that carries a redirect reports the reason of
\* the rule that produced it: expired for a record whose expiry is in the
\* past, premium_access for a premium user, free_user for a free user.
C11_ReasonMatchesRule ==
  \A s \in Slots :
    (/\ slots[s].kind = "me" /\ slots[s].pc = "done" /\ slots[s].status = 200
     /\ slots[s].redirectTo # "null")
    => slots[s].reason = TableReason(slots[s].user)

C13_SweepResetsToFreeDefaults ==
  [][\A s \in Slots :
       (/\ Stepping /\ slots[s].kind = "me"
        /\ slots[s].pc = "downgrade" /\ slots'[s].pc = "refetch")
       => LET user == users'[slots[s].userId]
          IN /\ slots[s].expiryStatus.shouldDowngrade
             /\ user.planType = "free"
             /\ user.minutesRemaining = FreeMinutes
             /\ ~user.isPremium
             /\ user.planExpiresAt = NoDate]_vars

\* C14: once a sweep has downgraded a user, no later sweep downgrades the
\* user again unless a plan was bought in between: every downgrade write
\* finds the user still stored as premium.
C14_DowngradeOnce ==
  [][\A s \in Slots :
       (/\ Stepping /\ slots[s].kind = "me"
        /\ slots[s].pc = "downgrade" /\ slots'[s].pc = "refetch")
       => /\ users[slots[s].userId].isPremium
          /\ users[slots[s].userId].planType # "free"]_vars

\* C15: POST /api/auth/cross-domain-login never answers success for a user
\* whose planExpiresAt is in the past.
C15_NoLoginAfterExpiry ==
  \A s \in Slots :
    (slots[s].kind = "login" /\ slots[s].pc = "done" /\ slots[s].status = 200)
    => ~(/\ slots[s].user.planExpiresAt # NoDate
         /\ slots[s].user.planExpiresAt[1] < now)

\* C16: outside sandbox mode a webhook request whose verification headers
\* are missing, or whose signature is not the expected one, is answered with
\* 400 or 401 and changes no order and no user; in sandbox mode the same
\* request is handled exactly as the request with a valid signature is.
C16_SignatureGate ==
  [][\A s \in Slots, o \in OrderIds, ev \in WebhookEvents,
        present \in BOOLEAN, valid \in BOOLEAN, dbok \in BOOLEAN :
       (WebhookReceive(s, o, ev, present, valid, dbok)
        /\ ~(present /\ valid))
       => IF environment = "sandbox"
          THEN WebhookReceive(s, o, ev, TRUE, TRUE, dbok)
          ELSE /\ slots'[s].pc = "done"
               /\ slots'[s].status = (IF present THEN 401 ELSE 400)
               /\ UNCHANGED <<users, payments, usageTracking, planUpdates>>
    ]_vars

\* C16 witness: in production a success event with a wrong signature was
\* turned away from an order that is awaiting payment
C16_Witness ==
  \E s \in Slots :
    /\ environment = "production"
    /\ slots[s].kind = "webhook" /\ slots[s].pc = "done"
    /\ slots[s].event = "PAYMENT_SUCCESS_WEBHOOK"
    /\ slots[s].status = 401 /\ slots[s].body = "signature"
    /\ payments[slots[s].orderId].status = "created"

\* C17: a webhook that is let through the signature gate is not answered 200
\* when the 'failed' or 'cancelled' status of its order could not be
\* written, and is not answered with a 5xx when its order does not exist, a
\* condition no retry changes.
C17_WebhookStatusTellsOutcome ==
  [][\A s \in Slots, o \in OrderIds, ev \in WebhookEvents,
        present \in BOOLEAN, valid \in BOOLEAN :
       /\ (/\ WebhookReceive(s, o, ev, present, valid, FALSE)
           /\ SignatureGate(present, valid)
           /\ ev \in {"PAYMENT_FAILED_WEBHOOK", "PAYMENT_USER_DROPPED_WEBHOOK"}
           /\ payments[o].status = "created")
          => slots'[s].status # 200
       /\ (/\ WebhookReceive(s, o, ev, present, valid, TRUE)
           /\ SignatureGate(present, valid)
           /\ ev = "PAYMENT_SUCCESS_WEBHOOK"
           /\ payments[o].status = "absent")
          => slots'[s].status < 500
    ]_vars

\* C18: no step of an activation entry point (webhook, return-URL landing,
\* verify, test endpoints) that is working on an order id without a local
\* record changes the payments table or a user: the missing order is not
\* created in order to activate it.
C18_MissingOrderCreatesNothing ==
  [][\A s \in Slots :
       (/\ Stepping
        /\ slots'[s].kind \in {"webhook", "return", "verify", "testSuccess",
                               "testWebhook"}
        /\ slots'[s].orderId \in OrderIds
        /\ slots'[s] # slots[s]
        /\ payments[slots'[s].orderId].status = "absent")
       => UNCHANGED <<payments, users>>]_vars

\* C19: a return-URL landing for a known order asks the gateway for the
\* payment status at most maxRetries times and not again after an attempt
\* that saw a successful payment, and when every attempt failed the landing
\* ends on the failure page without activating the order.
C19_ReturnRetryBounded ==
  [][\A s \in Slots, o \in OrderIds, urlStatus \in UrlStatuses,
        replies \in [1..maxRetries -> LoopReplies] :
       (ReturnReceive(s, o, urlStatus, replies)
        /\ payments[o].status # "absent")
       => /\ slots'[s].calls \in 1..maxRetries
          /\ \A i \in 1..maxRetries :
               (hasSuccessfulPayment(replies[i])
                /\ \A j \in 1..(i - 1) : ~hasSuccessfulPayment(replies[j])
                /\ ~orderStatusSuccess(urlStatus))
               => slots'[s].calls = i
          /\ (\A i \in 1..maxRetries : replies[i] = "ERROR")
             => /\ slots'[s].pc = "done"
                /\ slots'[s].body = "payment_failed"
    ]_vars

\* C20: a checkout request of a signed-in user for a plan of the pricing
\* table leaves a local order of that user and plan, with the amount of the
\* pricing table, whatever the gateway answered.
C20_LocalOrderRecorded ==
  \A s \in Slots :
    (/\ slots[s].kind = "createOrder" /\ slots[s].pc = "done"
     /\ slots[s].planType \in PlanNames)
    => \E o \in OrderIds :
         /\ payments[o].status # "absent"
         /\ payments[o].userId = slots[s].userId
         /\ payments[o].planType = slots[s].planType
         /\ payments[o].amount = PLAN_PRICING[slots[s].planType].amount

\* C21: when the webhook, the return-URL landing or the verify endpoint has
\* updated the user's plan for an order and answers success, the order is
\* paid with a paidAt timestamp, the user has the order's plan, its granted
\* minutes, an expiry one month ahead and isPremium, and the usage ledger
\* holds a zero-duration record of that user with the new balance.
C21_ActivationEffects ==
  [][\A s \in Slots :
       (/\ Stepping
        /\ slots[s].kind \in {"webhook", "return", "verify"}
        /\ slots[s].pc \in {"plan", "track", "redirect"}
        /\ slots'[s].pc = "done" /\ slots'[s].status \in {200, 302}
        /\ slots'[s].body = "success"
        /\ planUpdates[slots[s].orderId] <= 1
        /\ \A t \in Slots \ {s} : slots[t].kind = "idle")
       => LET row == payments'[slots[s].orderId]
              granted == minutesToAdd(PLAN_PRICING[row.planType])
          IN /\ row.status = "paid" /\ row.paidAt = "set"
             /\ users'[row.userId] =
                  [planType |-> row.planType, minutesRemaining |-> granted,
                   planExpiresAt |-> expiresAt, isPremium |-> TRUE]
             /\ \E i \in DOMAIN usageTracking' :
                  usageTracking'[i] =
                    [userId |-> row.userId, duration |-> 0,
                     remainingMinutes |-> granted]]_vars

\* C22: outside sandbox mode no request goes on to mark an order paid on the
\* word of the browser alone: not a return-URL landing none of whose gateway
\* fetches reported a successful payment, and not a call of the test
\* endpoint.
C22_GatewayIsSourceOfTruth ==
  [][environment # "sandbox" =>
       /\ \A s \in Slots, o \in OrderIds, urlStatus \in UrlStatuses,
             replies \in [1..maxRetries -> LoopReplies] :
            (/\ ReturnReceive(s, o, urlStatus, replies)
             /\ \A i \in 1..maxRetries : ~hasSuccessfulPayment(replies[i]))
            => slots'[s].pc # "markPaid"
       /\ \A s \in Slots :
            (Stepping /\ slots[s].kind = "idle")
            => ~(slots'[s].kind = "testSuccess"
                 /\ slots'[s].pc \in {"create", "markPaid"})
    ]_vars

\* C23: the balance check, the read inside deductMinutes and its write are
\* separate store accesses: the write of a recording request stores the
\* balance computed from its own earlier read, whatever a concurrent request
\* of the same user has stored since, so a deduction can be lost.
C23_DeductWritesStaleBalance ==
  [][\A s \in Slots :
       (/\ Stepping /\ slots[s].kind = "transcribe"
        /\ slots[s].pc = "deductWrite" /\ slots'[s].pc = "save")
       => /\ users'[slots[s].userId].minutesRemaining = slots[s].remaining
          /\ \E i \in DOMAIN usageTracking :
               /\ usageTracking[i].userId = slots[s].userId
               /\ usageTracking[i].remainingMinutes = slots[s].remaining
    ]_vars

\* C23 witness: two recordings of one user were processed and charged, both
\* usage records show the same balance, and the stored balance reflects one
\* deduction only
C23_Witness ==
  \E u \in UserIds :
    /\ recordings[u] = 2
    /\ Len(usageTracking) = 2
    /\ \A i \in 1..2 :
         usageTracking[i] =
           [userId |-> u, duration |-> recordingDurationSeconds,
            remainingMinutes |-> FreeMinutes - 1]
    /\ users[u].minutesRemaining = FreeMinutes - 1
    /\ users[u].planType = "free"

\* C24: with one request at a time, whenever a deduction or an activation
\* has ended with success, the newest usage record shows the balance the
\* user has now; and no step changes or removes a usage record or removes an
\* order.
C24_LedgerTracksBalance ==
  /\ [](\A s \in Slots :
          (/\ slots[s].pc = "done"
           /\ slots[s].kind \in {"deduct", "webhook", "return"}
           /\ slots[s].body = "success"
           /\ slots[s].userId \in UserIds
           /\ usageTracking # <<>>)
          => usageTracking[Len(usageTracking)].remainingMinutes
               = users[slots[s].userId].minutesRemaining)
  /\ [][/\ \/ usageTracking' = usageTracking
           \/ \E r \in {usageTracking'[Len(usageTracking')]} :
                usageTracking' = Append(usageTracking, r)
        /\ \A o \in OrderIds :
             payments[o].status # "absent" => payments'[o].status # "absent"
       ]_vars

\* C25: a sweep that reads a user with no expiry, with an expiry still
\* ahead, or who is not premium, reports no downgrade, makes no write and
\* leaves the user record as it is.
C25_SweepWritesOnlyOnEdge ==
  [][\A s \in Slots :
       (/\ Stepping /\ slots[s].kind = "me"
        /\ slots[s].pc = "sweep" /\ slots'[s].pc # "sweep"
        /\ LET user == users[slots[s].userId]
           IN \/ user.planExpiresAt = NoDate
              \/ user.planExpiresAt[1] > now
              \/ ~user.isPremium)
       => /\ slots'[s].pc = "done"
          /\ ~slots'[s].expiryStatus.shouldDowngrade
          /\ users' = users]_vars

\* C25 witness: /api/me answered a user whose plan ran out and who had been
\* downgraded before: the sweep saw the expiry and reported no downgrade
C25_Witness ==
  \E s \in Slots :
    /\ slots[s].kind = "me" /\ slots[s].pc = "done" /\ slots[s].status = 200
    /\ slots[s].expiryStatus.isExpired
    /\ ~slots[s].expiryStatus.shouldDowngrade
    /\ users[slots[s].userId] =
         [planType |-> "free", minutesRemaining |-> SweepMinutes,
          planExpiresAt |-> users[slots[s].userId].planExpiresAt,
          isPremium |-> FALSE]

\* C26 as stated: a recording request of a signed-in user answers success
\* only when its deduction has been written.
C26_SuccessMeansDeducted ==
  [][\A s \in Slots :
       (/\ Stepping /\ slots'[s].kind = "transcribe"
        /\ slots'[s].userId # 0
        /\ slots[s].pc # "done" /\ slots'[s].pc = "done"
        /\ slots'[s].body = "success")
       => slots[s].pc = "save"]_vars

\* C26 amended: a step of a recording request changes a balance or the
\* usage ledger only after its transcription succeeded, and adds a recording
\* only after its deduction is written; a request that ends with an error
\* changes nothing in that step; the deduction is written at most once, and
\* a request that answers success has either written it or had a store
\* access of the deduction fail.
C26_DeductAfterTranscription ==
  [][\A s \in Slots :
       (Stepping /\ slots'[s].kind = "transcribe" /\ slots'[s] # slots[s])
       => /\ (users' # users \/ usageTracking' # usageTracking)
             => /\ slots[s].calls = 2
                /\ slots[s].pc \in {"deductTrack", "deductWrite"}
          /\ users' # users => slots'[s].pc = "save"
          /\ recordings' # recordings => slots[s].pc = "save"
          /\ (slots'[s].pc = "done" /\ slots'[s].body # "success")
             => UNCHANGED <<users, usageTracking, recordings>>
          /\ (/\ slots'[s].pc = "done" /\ slots'[s].body = "success"
              /\ slots'[s].userId # 0)
             => slots[s].pc \in {"save", "deductRead", "deductTrack",
                                 "deductWrite"}
    ]_vars

\* C26 witness: a signed-in user's recording without speech was answered
\* with an error after the transcription call, nothing having been charged
C26_Witness ==
  \E s \in Slots :
    /\ slots[s].kind = "transcribe" /\ slots[s].pc = "done"
    /\ slots[s].userId # 0 /\ slots[s].calls = 1
    /\ slots[s].status = 400 /\ slots[s].body = "WHISPER_ERROR"
    /\ usageTracking = <<>>
    /\ recordings[slots[s].userId] = 0
    /\ users[slots[s].userId].minutesRemaining \in InitMinutes

\* hosts the two origins are told apart from
RoutingHosts ==
  Hosts \cup {<<"localhost">>, <<"app", ".", "example", ".", "com">>,
              <<"www", ".", "superflow", ".", "work">>}

\* C27: for every user record and every host, the redirect computed inline
\* by GET /api/auth/check-routing is the one getUserRedirectUrl returns, and
\* shouldRedirect is true exactly when there is a redirect; so is every
\* answer the handler has given.
C27_CheckRoutingAgrees ==
  /\ \A u \in UserIds, h \in RoutingHosts :
       LET decision == checkRouting(users[u], h)
       IN /\ decision.redirectTo = getUserRedirectUrl(users[u], h)
          /\ decision.shouldRedirect <=> decision.redirectTo # "null"
  /\ \A s \in Slots :
       (slots[s].kind = "routing" /\ slots[s].pc = "done"
        /\ slots[s].status = 200)
       => /\ slots[s].redirectTo
               = getUserRedirectUrl(slots[s].user, slots[s].host)
          /\ slots[s].branch = "shouldRedirect"
               <=> slots[s].redirectTo # "null"

\* C27 witness: check-routing on the premium origin sent a user whose plan
\* has expired, and who is still stored as premium, to the upgrade page
C27_Witness ==
  \E s \in Slots :
    /\ slots[s].kind = "routing" /\ slots[s].pc = "done"
    /\ slots[s].host = PremiumHost
    /\ hasPremiumAccess(slots[s].user)
    /\ slots[s].redirectTo = "https://superflow.work/premium"
    /\ slots[s].branch = "shouldRedirect"

\* C28: a /api/me response of a request whose sweep downgraded the user
\* carries planStatus (present only when daysLeft >= 0) with wasDowngraded
\* true, and its routing decision is the one for the downgraded record.
C28_DowngradeReported ==
  \A s \in Slots :
    (/\ slots[s].kind = "me" /\ slots[s].pc = "done" /\ slots[s].status = 200
     /\ slots[s].expiryStatus.shouldDowngrade)
    => /\ slots[s].expiryStatus.daysLeft >= 0
       /\ ~slots[s].user.isPremium /\ slots[s].user.planType = "free"
       /\ slots[s].redirectTo
            = getUserRedirectUrl(slots[s].user, slots[s].host)

\* C29: once the plan of an order has been granted, a further activation of
\* the same order leaves the user as the recordings made since have left
\* them: it changes no field of the user record.
C29_RepeatedActivationKeepsUser ==
  [][\A s \in Slots :
       (/\ Stepping
        /\ slots[s].kind \in {"webhook", "return", "verify"}
        /\ slots[s].pc = "plan" /\ slots'[s].pc # "plan"
        /\ planUpdates[slots[s].orderId] >= 1)
       => users' = users]_vars

\* the errors the retry is meant for
ConnectionErrors ==
  {e \in DbErrors :
     \/ e.code \in {"57P01", "ECONNRESET", "ENOTFOUND", "ECONNREFUSED"}
     \/ e.message \in {<<"Connection", "terminated", "unexpectedly">>,
                       <<"the", "connection", "was", "closed">>,
                       <<"Connection", "lost">>}}

\* C30: withDbRetry runs the operation at most maxRetries times and every
\* call ends; an attempt that succeeds ends the call with its result, an
\* attempt that fails with an error outside the connection class ends it with
\* that error, the maxRetries-th failed attempt ends it with its error, and
\* any other failed attempt is followed by one more attempt.
C30_RetryBounded ==
  /\ [](\A s \in Slots :
          slots[s].kind = "dbRetry" => slots[s].calls <= slots[s].maxRetries)
  /\ [][\A s \in Slots, ok \in BOOLEAN, error \in DbErrors :
          RetryAttempt(s, ok, error)
          => LET sl == slots'[s]
             IN /\ sl.calls = slots[s].calls + 1
                /\ ok => sl.pc = "done" /\ sl.body = "returned"
                /\ (~ok /\ error \notin ConnectionErrors)
                   => /\ sl.pc = "done" /\ sl.body = "thrown"
                      /\ sl.lastError = error
                /\ (~ok /\ error \in ConnectionErrors
                    /\ sl.calls = sl.maxRetries)
                   => /\ sl.pc = "done" /\ sl.body = "thrown"
                      /\ sl.lastError = error
                /\ (~ok /\ error \in ConnectionErrors
                    /\ sl.calls < sl.maxRetries)
                   => sl.pc = "attempt"
       ]_vars
  /\ \A s \in Slots :
       (slots[s].kind = "dbRetry" /\ slots[s].pc = "attempt")
         ~> (slots[s].kind = "dbRetry" /\ slots[s].pc = "done")

\* C30 witness: a call that gave up after maxRetries attempts which all
\* failed with connection errors, the last of them being the one thrown
C30_Witness ==
  \E s \in Slots :
    /\ slots[s].kind = "dbRetry" /\ slots[s].pc = "done"
    /\ slots[s].body = "thrown"
    /\ slots[s].maxRetries = MaxDbRetries
    /\ slots[s].calls = MaxDbRetries
    /\ slots[s].lastError \in ConnectionErrors

=============================================================================
